---- MODULE Spec2Model ----
(***************************************************************************)
(* Model of the record store of maavarim (src/db.py): the services,        *)
(* employees and events tables with their id sequences, the CRUD           *)
(* operations over them and the bulk employee merge.                       *)
(*                                                                         *)
(* A Python str is a sequence of one-symbol strings, so that split, strip  *)
(* and join act on its characters; None is the one-element sequence None.  *)
(* A table is the set of its rows.  The variable call is the record of the *)
(* last completed operation: its name, its arguments, what it returned or  *)
(* whether it raised, and the tables as they were when it was called.      *)
(***************************************************************************)
EXTENDS Integers, Sequences, FiniteSets, TLC

VARIABLES services, employees, events,
          services_id_seq, employees_id_seq, events_id_seq,
          issued, merges, call, panel, runs

vars == <<services, employees, events,
          services_id_seq, employees_id_seq, events_id_seq, issued, merges,
          call, panel, runs>>

\* ------------------------------------------------------------------ bounds
\* Largest id each sequence hands out in the model.
MaxServiceId == 3
MaxEmployeeId == 4
MaxEventId == 2
\* Longest batch handed to add_employees_bulk.
MaxBatch == 2
\* Longest registered_events string of a table that add_employees_bulk is
\* still called on.
MaxEventsLen == 4
\* Most add_employees_bulk calls of one run.
MaxMerges == 2
\* Most rows of an employees table that an earlier session left in the file.
MaxStored == 2

\* ------------------------------------------------------------------ values
None == <<"None">>

\* Python truthiness of an optional str: None and '' are false.
Truthy(s) == s # None /\ s # <<>>

ServiceNames == {<<"a">>, <<"b">>}
Domains == {<<"x">>, <<"y">>}

Tables == [services |-> services, employees |-> employees, events |-> events]

\* ---------------------------------------------------------------- services
\* The constraint as UNIQUE (name, domain) instead of UNIQUE (name).
services_constraint_name_domain(rows, row) ==
    \/ row.name = None
    \/ row.domain = None
    \/ \E r \in rows : r.id # row.id /\ r.name = row.name /\ r.domain = row.domain

\* name VARCHAR NOT NULL UNIQUE, domain VARCHAR NOT NULL, id PRIMARY KEY:
\* whether the table rows, with row put in place of the row of id row.id
\* (if any), would break a constraint.
services_constraint_off(rows, row) == FALSE

services_constraint(rows, row) ==
    \/ row.name = None
    \/ row.domain = None
    \/ \E r \in rows : r.id # row.id /\ r.name = row.name

\* nextval by max(id) + 1 instead of the sequence.
nextval_max_id(rows, seq) ==
    IF rows = {} THEN 1
    ELSE 1 + (CHOOSE m \in {r.id : r \in rows} : \A r \in rows : r.id <= m)

nextval(rows, seq) == seq

add_service(name, domain) ==
    /\ services_id_seq <= MaxServiceId
    /\ LET id == nextval(services, services_id_seq)
           row == [id |-> id, name |-> name, domain |-> domain]
       IN  IF services_constraint(services, row) \/ \E r \in services : r.id = id
           THEN \* duckdb.ConstraintException: caught, False
                /\ services' = services
                /\ services_id_seq' \in {services_id_seq, services_id_seq + 1}
                /\ issued' = issued
                /\ call' = [op |-> "add_service", args |-> <<name, domain>>,
                            raised |-> FALSE, ret |-> FALSE, pre |-> Tables,
                            pre_issued |-> issued]
           ELSE /\ services' = services \cup {row}
                /\ services_id_seq' = services_id_seq + 1
                /\ issued' = [issued EXCEPT !.services = @ \cup {id}]
                /\ call' = [op |-> "add_service", args |-> <<name, domain>>,
                            raised |-> FALSE, ret |-> TRUE, pre |-> Tables,
                            pre_issued |-> issued]
    /\ UNCHANGED <<panel, runs, merges, employees, events, employees_id_seq, events_id_seq>>

\* UPDATE ... WHERE id = ? that sets the name but not the domain.
update_row_name_only(r, name, domain) == [r EXCEPT !.name = name]

update_row(r, name, domain) == [r EXCEPT !.name = name, !.domain = domain]

update_service(service_id, name, domain) ==
    /\ LET hit == {r \in services : r.id = service_id}
       IN  IF \E r \in hit : services_constraint(services, update_row(r, name, domain))
           THEN /\ services' = services
                /\ call' = [op |-> "update_service",
                            args |-> <<service_id, name, domain>>,
                            raised |-> FALSE, ret |-> FALSE, pre |-> Tables,
                            pre_issued |-> issued]
           ELSE /\ services' = (services \ hit)
                                 \cup {update_row(r, name, domain) : r \in hit}
                /\ call' = [op |-> "update_service",
                            args |-> <<service_id, name, domain>>,
                            raised |-> FALSE, ret |-> TRUE, pre |-> Tables,
                            pre_issued |-> issued]
    /\ UNCHANGED <<panel, runs, merges, employees, events, services_id_seq, employees_id_seq,
                   events_id_seq, issued>>

\* DELETE that also removes the row whose id is the next lower one.
delete_rows_off_by_one(rows, service_id) ==
    {r \in rows : r.id # service_id /\ r.id # service_id - 1}

delete_rows(rows, service_id) == {r \in rows : r.id # service_id}

delete_service(service_id) ==
    /\ services' = delete_rows(services, service_id)
    /\ call' = [op |-> "delete_service", args |-> <<service_id>>,
                raised |-> FALSE, ret |-> None, pre |-> Tables,
                pre_issued |-> issued]
    /\ UNCHANGED <<panel, runs, merges, employees, events, services_id_seq, employees_id_seq,
                   events_id_seq, issued>>

clear_services_table ==
    /\ services' = {}
    /\ call' = [op |-> "clear_services_table", args |-> <<>>,
                raised |-> FALSE, ret |-> None, pre |-> Tables,
                pre_issued |-> issued]
    /\ UNCHANGED <<panel, runs, merges, employees, events, services_id_seq, employees_id_seq,
                   events_id_seq, issued>>

\* --------------------------------------------------------------- str, list
\* str.strip(): leading and trailing whitespace removed.
RECURSIVE lstrip(_)
lstrip(s) == IF s # <<>> /\ Head(s) = " " THEN lstrip(Tail(s)) ELSE s

RECURSIVE rstrip(_)
rstrip(s) ==
    IF s # <<>> /\ s[Len(s)] = " " THEN rstrip(SubSeq(s, 1, Len(s) - 1)) ELSE s

strip(s) == rstrip(lstrip(s))

\* str.split(','): the pieces between the commas, empty pieces kept.
RECURSIVE split(_)
split(s) ==
    IF \A i \in 1..Len(s) : s[i] # ","
    THEN <<s>>
    ELSE LET i == CHOOSE k \in 1..Len(s) :
                      s[k] = "," /\ \A j \in 1..(k - 1) : s[j] # ","
         IN  <<SubSeq(s, 1, i - 1)>> \o split(SubSeq(s, i + 1, Len(s)))

\* ', '.join(list)
RECURSIVE join(_)
join(list) ==
    IF list = <<>> THEN <<>>
    ELSE IF Len(list) = 1 THEN list[1]
    ELSE list[1] \o <<",", " ">> \o join(Tail(list))

\* [e.strip() for e in current_events.split(',')]
parse_events(current_events) ==
    LET parts == split(current_events)
    IN  [i \in 1..Len(parts) |-> strip(parts[i])]

\* x in list
in_list(x, list) == \E i \in 1..Len(list) : list[i] = x

\* The symbols of the model's strings in code point order of their first
\* character.
Alphabet ==
    <<" ", ",", "050", "2024-01-01", "2024-06-01", "A", "Avi", "B", "Cohen",
      "Conf2024", "Dana", "Haifa", "Levi", "None", "a", "b", "d@x", "dana", "x", "y">>

Rank(c) == CHOOSE i \in 1..Len(Alphabet) : Alphabet[i] = c

\* s < t for VARCHAR values in ORDER BY.
RECURSIVE str_lt(_, _)
str_lt(s, t) ==
    IF t = <<>> THEN FALSE
    ELSE IF s = <<>> THEN TRUE
    ELSE IF Head(s) # Head(t) THEN Rank(Head(s)) < Rank(Head(t))
    ELSE str_lt(Tail(s), Tail(t))

\* SELECT id, name, domain FROM services ORDER BY domain, name
get_all_services ==
    LET n == Cardinality(services)
        before(a, b) == \/ str_lt(a.domain, b.domain)
                        \/ a.domain = b.domain /\ str_lt(a.name, b.name)
    IN  CHOOSE q \in [1..n -> services] :
            /\ \A i, j \in 1..n : i # j => q[i] # q[j]
            /\ \A i, j \in 1..n : i < j => ~before(q[j], q[i])

\* --------------------------------------------------------------- employees
\* A key that a dict does not carry.
Missing == <<"Missing">>

\* dict.get(key, default)
get(d, key, default) == IF d[key] = Missing THEN default ELSE d[key]

\* first_name VARCHAR NOT NULL, last_name VARCHAR NOT NULL
employees_constraint(row) == row.first_name = None \/ row.last_name = None

\* The WHERE clause without its (email IS NULL AND ? IS NULL) branch.
lookup_no_null_email(rows, first_name, last_name, email) ==
    {r \in rows : /\ first_name # None /\ r.first_name = first_name
                  /\ last_name # None /\ r.last_name = last_name
                  /\ email # None /\ r.email # None /\ r.email = email}

\* WHERE first_name = ? AND last_name = ?
\*   AND (email = ? OR (email IS NULL AND ? IS NULL)):
\* a comparison with NULL selects no row.
lookup(rows, first_name, last_name, email) ==
    {r \in rows : /\ first_name # None /\ r.first_name = first_name
                  /\ last_name # None /\ r.last_name = last_name
                  /\ \/ email # None /\ r.email # None /\ r.email = email
                     \/ r.email = None /\ email = None}

\* The label put in front of the list instead of behind it.
appended_in_front(events_list, event_name) == <<event_name>> \o events_list

\* events_list.append(event_name)
appended(events_list, event_name) == Append(events_list, event_name)

\* The test without the membership check.
is_new_event_unchecked(event_name, events_list) == Truthy(event_name)

\* event_name and event_name not in events_list
is_new_event(event_name, events_list) ==
    Truthy(event_name) /\ ~in_list(event_name, events_list)

\* The UPDATE writing the label alone over the list.
merged_events_overwritten(current_events, event_name) ==
    IF Truthy(event_name) THEN event_name ELSE current_events

\* The registered_events an existing employee gets for event_name; what it
\* has when nothing is written.
merged_events(current_events, event_name) ==
    IF Truthy(current_events)
    THEN LET events_list == parse_events(current_events)
         IN  IF is_new_event(event_name, events_list)
             THEN join(appended(events_list, event_name))
             ELSE current_events
    ELSE IF Truthy(event_name) THEN event_name ELSE current_events

\* Whether the branch taken for an existing employee runs its UPDATE.
updates(current_events, event_name) ==
    IF Truthy(current_events)
    THEN is_new_event(event_name, parse_events(current_events))
    ELSE Truthy(event_name)

\* count counted only for the records that wrote something.
count_changed_only(count, changed) == IF changed THEN count + 1 ELSE count

\* count += 1
count_next(count, changed) == count + 1

\* The UPDATE without its WHERE clause.
updated_everywhere(rows, emp_id, new_events) ==
    {[r EXCEPT !.registered_events = new_events] : r \in rows}

\* UPDATE employees SET registered_events = ? WHERE id = ?
updated(rows, emp_id, new_events) ==
    {IF r.id = emp_id THEN [r EXCEPT !.registered_events = new_events] ELSE r
     : r \in rows}

\* The INSERT with the phone and the residence parameters exchanged.
inserted_row_swapped(id, employee, event_name) ==
    [id |-> id,
     first_name |-> get(employee, "first_name", <<>>),
     last_name |-> get(employee, "last_name", <<>>),
     email |-> get(employee, "email", None),
     phone |-> get(employee, "residence", None),
     residence |-> get(employee, "phone", None),
     role |-> get(employee, "role", None),
     work_location |-> get(employee, "work_location", None),
     registered_events |-> event_name]

\* INSERT INTO employees (...) VALUES (nextval('employees_id_seq'), ?, ...)
\* for an employee the lookup did not find.
inserted_row(id, employee, event_name) ==
    [id |-> id,
     first_name |-> get(employee, "first_name", <<>>),
     last_name |-> get(employee, "last_name", <<>>),
     email |-> get(employee, "email", None),
     phone |-> get(employee, "phone", None),
     residence |-> get(employee, "residence", None),
     role |-> get(employee, "role", None),
     work_location |-> get(employee, "work_location", None),
     registered_events |-> event_name]

\* One pass of the loop body of add_employees_bulk from the run state st
\* (the rows, the sequence, the counter, the log of the passes so far): the
\* set of run states it can leave.  fetchone() returns any one matching row.
merge_record(st, employee, event_name) ==
    LET first_name == get(employee, "first_name", <<>>)
        last_name == get(employee, "last_name", <<>>)
        email == get(employee, "email", None)
        found == lookup(st.rows, first_name, last_name, email)
        pass(existing, rows, wrote) ==
            [employee |-> employee, existing |-> existing,
             before |-> st.rows, after |-> rows, wrote |-> wrote]
    IN  IF found # {}
        THEN {LET new_events == merged_events(existing.registered_events, event_name)
                  wrote == updates(existing.registered_events, event_name)
                  rows == IF wrote
                          THEN updated(st.rows, existing.id, new_events)
                          ELSE st.rows
              IN  [st EXCEPT !.rows = rows,
                             !.count = count_next(st.count, wrote),
                             !.log = Append(st.log, pass({existing}, rows, wrote))]
              : existing \in found}
        ELSE LET row == inserted_row(st.seq, employee, event_name)
             IN  IF st.seq > MaxEmployeeId
                 THEN {}
                 ELSE IF employees_constraint(row)
                 THEN \* duckdb.ConstraintException leaves the function
                      {[st EXCEPT !.raised = TRUE, !.seq = q,
                                  !.log = Append(st.log, pass({}, st.rows, FALSE))]
                       : q \in {st.seq, st.seq + 1}}
                 ELSE {[st EXCEPT !.rows = st.rows \cup {row},
                                  !.seq = st.seq + 1,
                                  !.new_ids = st.new_ids \cup {row.id},
                                  !.count = count_next(st.count, TRUE),
                                  !.log = Append(st.log,
                                                 pass({}, st.rows \cup {row}, TRUE))]}

\* for employee in employees_data: ...   from the i-th record on.
RECURSIVE merge_from(_, _, _, _)
merge_from(st, employees_data, i, event_name) ==
    IF i > Len(employees_data) \/ st.raised
    THEN {st}
    ELSE UNION {merge_from(s, employees_data, i + 1, event_name)
                : s \in merge_record(st, employees_data[i], event_name)}

bulk_merge(employees_data, event_name) ==
    /\ merges < MaxMerges
    /\ \A r \in employees : Len(r.registered_events) <= MaxEventsLen
    /\ merges' = merges + 1
    /\ \E st \in merge_from([rows |-> employees, seq |-> employees_id_seq,
                              new_ids |-> {}, count |-> 0, raised |-> FALSE,
                              log |-> <<>>],
                             employees_data, 1, event_name) :
          /\ employees' = st.rows
          /\ employees_id_seq' = st.seq
          /\ issued' = [issued EXCEPT !.employees = @ \cup st.new_ids]
          /\ call' = [op |-> "add_employees_bulk",
                      args |-> <<employees_data, event_name>>,
                      raised |-> st.raised, ret |-> st.count, log |-> st.log,
                      pre |-> Tables, pre_issued |-> issued]
    /\ UNCHANGED <<services, events, services_id_seq, events_id_seq>>

\* A call of add_employees_bulk from outside the import panel.
add_employees_bulk(employees_data, event_name) ==
    /\ bulk_merge(employees_data, event_name)
    /\ UNCHANGED <<panel, runs>>

\* currval read as the value the next nextval will hand out.
currval_next(seq) == seq

\* SELECT currval(...): the value the last nextval of the sequence, now at
\* seq, handed out.
currval(seq) == seq - 1

add_employee(first_name, last_name, email, phone, residence, role, work_location, registered_events) ==
    /\ employees_id_seq <= MaxEmployeeId
    /\ LET id == nextval(employees, employees_id_seq)
           row == [id |-> id, first_name |-> first_name, last_name |-> last_name,
                   email |-> email, phone |-> phone, residence |-> residence,
                   role |-> role, work_location |-> work_location,
                   registered_events |-> registered_events]
           args == <<first_name, last_name, email, phone, residence, role,
                     work_location, registered_events>>
       IN  IF employees_constraint(row) \/ \E r \in employees : r.id = id
           THEN /\ employees' = employees
                /\ employees_id_seq' \in {employees_id_seq, employees_id_seq + 1}
                /\ issued' = issued
                /\ call' = [op |-> "add_employee", args |-> args,
                            raised |-> TRUE, ret |-> 0, pre |-> Tables,
                            pre_issued |-> issued]
           ELSE /\ employees' = employees \cup {row}
                /\ employees_id_seq' = employees_id_seq + 1
                /\ issued' = [issued EXCEPT !.employees = @ \cup {id}]
                /\ call' = [op |-> "add_employee", args |-> args,
                            raised |-> FALSE,
                            ret |-> currval(employees_id_seq + 1),
                            pre |-> Tables,
                            pre_issued |-> issued]
    /\ UNCHANGED <<panel, runs, merges, services, events, services_id_seq, events_id_seq>>

clear_employees_table ==
    /\ employees' = {}
    /\ call' = [op |-> "clear_employees_table", args |-> <<>>,
                raised |-> FALSE, ret |-> None, pre |-> Tables,
                pre_issued |-> issued]
    /\ UNCHANGED <<panel, runs, merges, services, events, services_id_seq, employees_id_seq,
                   events_id_seq, issued>>

\* ------------------------------------------------------------------ events
\* name VARCHAR NOT NULL
events_constraint(row) == row.name = None

add_event(name, date) ==
    /\ events_id_seq <= MaxEventId
    /\ LET id == nextval(events, events_id_seq)
           row == [id |-> id, name |-> name, date |-> date]
       IN  IF events_constraint(row) \/ \E r \in events : r.id = id
           THEN /\ events' = events
                /\ events_id_seq' \in {events_id_seq, events_id_seq + 1}
                /\ issued' = issued
                /\ call' = [op |-> "add_event", args |-> <<name, date>>,
                            raised |-> TRUE, ret |-> 0, pre |-> Tables,
                            pre_issued |-> issued]
           ELSE /\ events' = events \cup {row}
                /\ events_id_seq' = events_id_seq + 1
                /\ issued' = [issued EXCEPT !.events = @ \cup {id}]
                /\ call' = [op |-> "add_event", args |-> <<name, date>>,
                            raised |-> FALSE,
                            ret |-> currval(events_id_seq + 1),
                            pre |-> Tables,
                            pre_issued |-> issued]
    /\ UNCHANGED <<panel, runs, merges, services, employees, services_id_seq, employees_id_seq>>

clear_events_table ==
    /\ events' = {}
    /\ call' = [op |-> "clear_events_table", args |-> <<>>,
                raised |-> FALSE, ret |-> None, pre |-> Tables,
                pre_issued |-> issued]
    /\ UNCHANGED <<panel, runs, merges, services, employees, services_id_seq, employees_id_seq,
                   events_id_seq, issued>>

\* ------------------------------------------------------------ import panel
\* loaded_data["df"] is None
NoDf == [isnone |-> TRUE, rows |-> <<>>]

\* A FileInput that holds no file.
NoFile == [filename |-> <<>>, format |-> "none", sheet |-> <<>>]

\* The widgets and loaded_data as create_import_panel builds them. last is
\* the callback that ran last, uploaded the file of the last upload with
\* the df held before it, saved what the last save click read and handed on.
PanelInit ==
    [event_name_input |-> <<>>,
     file_type_select |-> [value |-> <<>>, disabled |-> TRUE],
     file_input_container |-> [visible |-> FALSE],
     file_input |-> NoFile,
     save_button |-> [visible |-> FALSE, disabled |-> TRUE],
     status_message |-> [alert_type |-> "info"],
     preview_table |-> [visible |-> FALSE],
     loaded_data |-> [df |-> NoDf, file_type_key |-> None, event_name |-> None],
     last |-> "create_import_panel",
     uploaded |-> [file |-> NoFile, before |-> NoDf],
     saved |-> [df |-> NoDf, employees_data |-> <<>>, passed |-> FALSE]]

\* ------------------------------------------------------------------ inputs
\* Event labels: none, empty, two plain ones and one holding a comma.
EventLabels == {None, <<>>, <<"A">>, <<"B">>, <<"A", ",", "B">>}

Person(first_name, last_name, email, phone, residence) ==
    [first_name |-> first_name, last_name |-> last_name, email |-> email,
     phone |-> phone, residence |-> residence, role |-> Missing,
     work_location |-> Missing]

\* The dicts of a batch: one person twice with different details, the same
\* name in a dict without an email key, a dict whose first_name is None and
\* that has no last_name key, and the person's name in lower case.
InRecords ==
    {Person(<<"Dana">>, <<"Levi">>, <<"d@x">>, <<"050">>, None),
     Person(<<"Dana">>, <<"Levi">>, <<"d@x">>, None, <<"Haifa">>),
     Person(<<"Dana">>, <<"Levi">>, Missing, Missing, Missing),
     Person(None, Missing, <<"d@x">>, None, None),
     Person(<<"dana">>, <<"Levi">>, <<"d@x">>, None, None)}

Batches == UNION {[1..n -> InRecords] : n \in 1..MaxBatch}

\* ------------------------------------------------------------ specification
Init ==
    /\ services = {}
    /\ employees = {}
    /\ events = {}
    /\ services_id_seq = 1
    /\ employees_id_seq = 1
    /\ events_id_seq = 1
    /\ merges = 0
    /\ panel = PanelInit
    /\ runs = <<>>
    /\ issued = [services |-> {}, employees |-> {}, events |-> {}]
    /\ call = [op |-> "init_db", args |-> <<>>, raised |-> FALSE, ret |-> None,
               pre |-> [services |-> {}, employees |-> {}, events |-> {}],
               pre_issued |-> [services |-> {}, employees |-> {}, events |-> {}]]

\* The services panel's store, beside an employee and an event.
Next ==
    \/ \E name \in ServiceNames, domain \in Domains : add_service(name, domain)
    \/ \E id \in 1..MaxServiceId, name \in ServiceNames, domain \in Domains :
          update_service(id, name, domain)
    \/ \E id \in 1..MaxServiceId : delete_service(id)
    \/ clear_services_table
    \/ /\ employees_id_seq <= 1
       /\ add_employee(<<"Dana">>, <<"Levi">>, None, None, None, None, None, None)
    \/ add_event(<<"Conf2024">>, None)

Spec == Init /\ [][Next]_vars

\* registered_events strings found in the file: none, empty, one label, a
\* list as the merge writes it, and a hand-edited list.
StoredEvents ==
    {None, <<>>, <<"A">>, <<"A", ",", " ", "B">>, <<"B", ",", "A", " ">>}

StoredRows ==
    [id : {0}, first_name : {<<"Dana">>}, last_name : {<<"Levi">>},
     email : {<<"d@x">>, None}, phone : {None}, residence : {None},
     role : {None}, work_location : {None}, registered_events : StoredEvents]

\* An order of StoredRows, by email and registered_events.
stored_before(a, b) ==
    \/ str_lt(a.email, b.email)
    \/ a.email = b.email /\ str_lt(a.registered_events, b.registered_events)

\* init_db() on a file that holds rows: CREATE TABLE IF NOT EXISTS and
\* CREATE SEQUENCE IF NOT EXISTS keep the rows earlier calls left, here a
\* service, an event and the employees ids 1..n in any of StoredRows. No
\* statement of add_employees_bulk orders or selects by the value of an id,
\* so of the tables that differ only in which row has which id one is taken.
InitStored ==
    /\ services = {[id |-> 1, name |-> <<"a">>, domain |-> <<"x">>]}
    /\ events = {[id |-> 1, name |-> <<"Conf2024">>, date |-> None]}
    /\ services_id_seq = 2
    /\ events_id_seq = 2
    /\ merges = 0
    /\ panel = PanelInit
    /\ runs = <<>>
    /\ \E n \in 0..MaxStored : \E f \in [1..n -> StoredRows] :
          /\ \A i, j \in 1..n : i < j => ~stored_before(f[j], f[i])
          /\ employees = {[f[i] EXCEPT !.id = i] : i \in 1..n}
          /\ employees_id_seq = n + 1
          /\ issued = [services |-> {1}, employees |-> 1..n, events |-> {1}]
          /\ call = [op |-> "init_db", args |-> <<>>, raised |-> FALSE,
                     ret |-> None, pre |-> Tables, pre_issued |-> issued]

\* One add_employees_bulk call on the stored table.
NextBulk ==
    /\ call.op = "init_db"
    /\ \E employees_data \in Batches, event_name \in EventLabels :
          add_employees_bulk(employees_data, event_name)

SpecBulk == InitStored /\ [][NextBulk]_vars

\* The employees table under the merge alone, from the empty table.
NextMerge ==
    \E employees_data \in Batches, event_name \in EventLabels :
        add_employees_bulk(employees_data, event_name)

SpecMerge == Init /\ [][NextMerge]_vars

\* ------------------------------------------------------- claims: services
\* The rows that carry a name.
TakenBy(rows, name) == {r \in rows : r.name = name}

\* C1: add_service(name, domain) with a name that a service row already has
\* returns False, raises nothing, and leaves the service rows as they were.
C1_AddExistingNameFails ==
    (call.op = "add_service" /\ TakenBy(call.pre.services, call.args[1]) # {})
        => /\ ~call.raised
           /\ call.ret = FALSE
           /\ services = call.pre.services

C1_Witness ==
    /\ call.op = "add_service"
    /\ TakenBy(call.pre.services, call.args[1]) # {}
    /\ call.ret = FALSE
    /\ Cardinality(services) = 2

\* C2: under add_service, update_service, delete_service and
\* clear_services_table no two service rows ever have the same name.
C2_NameUnique ==
    \A r1, r2 \in services : r1.name = r2.name => r1 = r2

C2_Witness ==
    /\ call.op = "update_service"
    /\ call.ret = FALSE
    /\ Cardinality(services) = 2
    /\ \E r1, r2 \in services : r1.id # r2.id /\ r1.domain = r2.domain

\* C3 as stated: update_service(id, name, domain) returns False and changes
\* no row when a row with another id has that name; in every other case it
\* returns True and the row with that id carries the name and the domain.
C3_Original ==
    call.op = "update_service" =>
        LET id == call.args[1]
            name == call.args[2]
            domain == call.args[3]
        IN  IF \E r \in call.pre.services : r.id # id /\ r.name = name
            THEN call.ret = FALSE /\ services = call.pre.services
            ELSE /\ call.ret = TRUE
                 /\ \A r \in services :
                       r.id = id => r.name = name /\ r.domain = domain

\* C3 amended: when a row has that id, update_service returns False and
\* changes no row if a row with another id has the name, and otherwise
\* returns True, the row keeping its id and carrying the name and domain
\* and every other row staying as it was (renaming a row to its own name
\* included); when no row has that id it returns True and changes no row.
C3_Amended ==
    call.op = "update_service" =>
        LET id == call.args[1]
            name == call.args[2]
            domain == call.args[3]
            exists == \E r \in call.pre.services : r.id = id
            taken == \E r \in call.pre.services : r.id # id /\ r.name = name
        IN  /\ ~call.raised
            /\ IF exists /\ taken
               THEN call.ret = FALSE /\ services = call.pre.services
               ELSE IF exists
               THEN /\ call.ret = TRUE
                    /\ services =
                         {r \in call.pre.services : r.id # id}
                           \cup {[id |-> id, name |-> name, domain |-> domain]}
               ELSE call.ret = TRUE /\ services = call.pre.services

C3_Witness ==
    /\ call.op = "update_service"
    /\ call.ret = TRUE
    /\ \E r \in call.pre.services :
          /\ r.id = call.args[1]
          /\ r.name = call.args[2]
          /\ r.domain # call.args[3]
    /\ Cardinality(services) = 2

\* C4: add_service(name, domain) with a name no service row has returns
\* True, and get_all_services then holds exactly one row with that name; it
\* has the given domain and an id that no other row has and that no row
\* had before, deleted and cleared rows included.
C4_AddFreshName ==
    (call.op = "add_service" /\ TakenBy(call.pre.services, call.args[1]) = {})
        => LET all == get_all_services
               at == {i \in 1..Len(all) : all[i].name = call.args[1]}
           IN  /\ call.ret = TRUE
               /\ Cardinality(at) = 1
               /\ \A i \in at :
                     /\ all[i].domain = call.args[2]
                     /\ \A j \in 1..Len(all) : j # i => all[j].id # all[i].id
                     /\ all[i].id \notin call.pre_issued.services

C4_Witness ==
    /\ call.op = "add_service"
    /\ call.ret = TRUE
    /\ call.pre.services # {}
    /\ \E i \in call.pre_issued.services :
          \A r \in call.pre.services : r.id < i

\* C5: delete_service(id) with an id that no service row has raises nothing
\* and leaves the services, employees and events tables as they were.
C5_DeleteMissingId ==
    (call.op = "delete_service"
       /\ \A r \in call.pre.services : r.id # call.args[1])
        => ~call.raised /\ Tables = call.pre

C5_Witness ==
    /\ call.op = "delete_service"
    /\ \A r \in call.pre.services : r.id # call.args[1]
    /\ \E r \in call.pre.services : r.id = call.args[1] - 1
    /\ employees # {}
    /\ events # {}

\* ------------------------------------------------------ claims: bulk merge
\* The identity key (first_name, last_name, email), an absent email equal to
\* an absent email only.
KeyOf(r) == <<r.first_name, r.last_name, r.email>>

NoTwoRowsShareKey(rows) ==
    \A r1, r2 \in rows : KeyOf(r1) = KeyOf(r2) => r1 = r2

\* The key an incoming dict is looked up by.
KeyOfRecord(employee) ==
    <<get(employee, "first_name", <<>>), get(employee, "last_name", <<>>),
      get(employee, "email", None)>>

\* The entries of a registered_events value; none for None.
Entries(registered_events) ==
    IF registered_events = None THEN <<>> ELSE parse_events(registered_events)

IsBulk == call.op = "add_employees_bulk"

\* C6: when no two employee rows share a key, add_employees_bulk with any
\* batch, one that carries a key several times included, leaves no two rows
\* sharing a key; two records of one person (same email) imported into the
\* empty table leave exactly one row, its registered_events the event label.
C6_KeysStayUnique ==
    IsBulk =>
        /\ NoTwoRowsShareKey(call.pre.employees) => NoTwoRowsShareKey(employees)
        /\ (/\ call.pre.employees = {}
            /\ Len(call.args[1]) = 2
            /\ KeyOfRecord(call.args[1][1]) = KeyOfRecord(call.args[1][2])
            /\ ~call.raised)
             => /\ Cardinality(employees) = 1
                /\ \A r \in employees :
                      /\ KeyOf(r) = KeyOfRecord(call.args[1][1])
                      /\ r.registered_events = call.args[2]

\* A pass of the loop that found an existing employee whose
\* registered_events is non-empty and lacks the non-empty event label.
AppendingPass(p) ==
    /\ p.existing # {}
    /\ Truthy(call.args[2])
    /\ \A e \in p.existing :
          /\ Truthy(e.registered_events)
          /\ ~in_list(call.args[2], Entries(e.registered_events))

\* C7: when an incoming record matches an existing employee whose
\* registered_events is non-empty and does not hold the non-empty event
\* label, that employee's registered_events becomes its previous entries in
\* their order followed by the label, joined with ', ' ("A" then "B" gives
\* "A, B"); no other row changes and the number of rows stays.
C7_AppendsInOrder ==
    IsBulk =>
        \A i \in 1..Len(call.log) :
            LET p == call.log[i]
            IN  AppendingPass(p) =>
                  \A e \in p.existing :
                    LET new == join(Entries(e.registered_events)
                                      \o <<call.args[2]>>)
                    IN  /\ p.after = (p.before \ {e})
                                        \cup {[e EXCEPT !.registered_events = new]}
                        /\ Cardinality(p.after) = Cardinality(p.before)
                        /\ (e.registered_events = <<"A">> /\ call.args[2] = <<"B">>)
                             => \E r \in p.after :
                                  /\ r.id = e.id
                                  /\ r.registered_events = <<"A", ",", " ", "B">>
                        /\ (i = Len(call.log) /\ ~call.raised) => employees = p.after

C7_Witness ==
    /\ IsBulk
    /\ Len(call.log) = 1
    /\ AppendingPass(call.log[1])
    /\ \E e \in call.log[1].existing :
          e.registered_events = <<"B", ",", "A", " ">>
    /\ \E r \in employees :
          r.registered_events = <<"B", ",", " ", "A", ",", " ", "A", ",", "B">>

\* C8: when an incoming record matches an existing employee and the event
\* label is empty or already one of the entries of that employee's
\* registered_events, that employee row and the number of rows stay as
\* they were.
C8_NoChangeWhenPresent ==
    IsBulk =>
        \A i \in 1..Len(call.log) :
            LET p == call.log[i]
            IN  \A e \in p.before :
                  (/\ KeyOf(e) = KeyOfRecord(p.employee)
                   /\ \/ ~Truthy(call.args[2])
                      \/ in_list(call.args[2], Entries(e.registered_events)))
                    => /\ e \in p.after
                       /\ Cardinality(p.after) = Cardinality(p.before)
                       /\ (i = Len(call.log) /\ ~call.raised) => e \in employees

C8_Witness ==
    /\ IsBulk
    /\ Len(call.log) = 1
    /\ call.args[2] = <<"A">>
    /\ \E e \in call.log[1].existing :
          e.registered_events = <<"B", ",", "A", " ">> /\ e \in employees
    /\ employees = call.pre.employees

\* C9 as stated: after any sequence of add_employees_bulk calls from the
\* empty employees table, with any event labels, no registered_events
\* (split on commas, each entry trimmed) holds the same entry twice.
C9_NoEntryTwice ==
    \A r \in employees :
        LET entries == Entries(r.registered_events)
        IN  \A i, j \in 1..Len(entries) : entries[i] = entries[j] => i = j

Emails == {None, <<"d@x">>}

Dates == {None, <<"2024-01-01">>, <<"2024-06-01">>}

\* add_employee and add_event called repeatedly with the same person and the
\* same event name, between clears of their tables.
NextInsert ==
    \/ \E email \in Emails :
          add_employee(<<"Dana">>, <<"Levi">>, email, None, None, None, None, None)
    \/ \E date \in Dates : add_event(<<"Conf2024">>, date)
    \/ clear_employees_table
    \/ clear_events_table

SpecInsert == Init /\ [][NextInsert]_vars

\* The row add_employee builds from its arguments, without the id.
EmployeeFields(args) ==
    [first_name |-> args[1], last_name |-> args[2], email |-> args[3],
     phone |-> args[4], residence |-> args[5], role |-> args[6],
     work_location |-> args[7], registered_events |-> args[8]]

WithoutId(r) == [f \in (DOMAIN r) \ {"id"} |-> r[f]]

\* C11: add_employee and add_event (called with the str names their
\* signatures ask for) insert exactly one new row holding the arguments,
\* whether or not a row with the same fields exists, and return the id of
\* that row, an id no other row of the table has.
C11_InsertsOneRowReturnsId ==
    /\ call.op = "add_employee" =>
          /\ ~call.raised
          /\ \E r \in employees :
                /\ r \notin call.pre.employees
                /\ employees = call.pre.employees \cup {r}
                /\ WithoutId(r) = EmployeeFields(call.args)
                /\ r.id = call.ret
                /\ \A o \in employees \ {r} : o.id # call.ret
    /\ call.op = "add_event" =>
          /\ ~call.raised
          /\ \E r \in events :
                /\ r \notin call.pre.events
                /\ events = call.pre.events \cup {r}
                /\ r.name = call.args[1] /\ r.date = call.args[2]
                /\ r.id = call.ret
                /\ \A o \in events \ {r} : o.id # call.ret

\* A second Dana Levi with the same email is stored beside the first.
C11_Witness ==
    /\ call.op = "add_employee"
    /\ \E o \in call.pre.employees :
          WithoutId(o) = EmployeeFields(call.args)
    /\ \E r \in employees : r.id = call.ret /\ r \notin call.pre.employees
    /\ Cardinality(employees) = Cardinality(call.pre.employees) + 1

\* -------------------------------------------------------- claims: get_all_*
\* a is placed before b by ORDER BY domain, name (services), ORDER BY
\* last_name, first_name (employees) and ORDER BY date DESC, name (events).
\* The queries give NULLS FIRST or NULLS LAST nowhere, so a NULL date goes
\* where the DuckDB release in use puts it (nulls_first).
before(kind, a, b, nulls_first) ==
    CASE kind = "services" ->
            \/ str_lt(a.domain, b.domain)
            \/ a.domain = b.domain /\ str_lt(a.name, b.name)
      [] kind = "employees" ->
            \/ str_lt(a.last_name, b.last_name)
            \/ a.last_name = b.last_name /\ str_lt(a.first_name, b.first_name)
      [] kind = "events" ->
            \/ a.date = None /\ b.date # None /\ nulls_first
            \/ a.date # None /\ b.date = None /\ ~nulls_first
            \/ a.date # None /\ b.date # None /\ str_lt(b.date, a.date)
            \/ a.date = b.date /\ str_lt(a.name, b.name)

\* The results a SELECT ... ORDER BY can give on rows: every row once, no row
\* ahead of one the sort keys place before it. Rows equal on the sort keys
\* come in an order the query does not fix.
Sorted(rows, kind, nulls_first) ==
    LET n == Cardinality(rows)
    IN  {q \in [1..n -> rows] :
            /\ \A i, j \in 1..n : i # j => q[i] # q[j]
            /\ \A i, j \in 1..n :
                  i < j => ~before(kind, q[j], q[i], nulls_first)}

\* conn.execute("SELECT ... ORDER BY ...").fetchall()
fetchall(op, kind) ==
    /\ call.op = "init_db"
    /\ \E nulls_first \in BOOLEAN :
          \E q \in Sorted(Tables[kind], kind, nulls_first) :
             call' = [op |-> op, args |-> <<kind>>, raised |-> FALSE,
                      ret |-> q, pre |-> Tables, pre_issued |-> issued]
    /\ UNCHANGED <<panel, runs, merges, services, employees, events,
                   services_id_seq, employees_id_seq, events_id_seq, issued>>

get_all_services_call == fetchall("get_all_services", "services")

get_all_employees == fetchall("get_all_employees", "employees")

get_all_events == fetchall("get_all_events", "events")

ReadServices ==
    [id : {0}, name : ServiceNames, domain : Domains]

ReadEmployees ==
    [id : {0}, first_name : {<<"Avi">>, <<"Dana">>},
     last_name : {<<"Cohen">>, <<"Levi">>}, email : {None}, phone : {None},
     residence : {None}, role : {None}, work_location : {None},
     registered_events : {None}]

ReadEvents == [id : {0}, name : {<<"A">>, <<"Conf2024">>}, date : Dates]

\* The rows ids 1..n of a table whose i-th insert stored f[i].
Numbered(f, n) == {[f[i] EXCEPT !.id = i] : i \in 1..n}

\* init_db() on a file that holds up to MaxStored rows in each table, the
\* service names distinct.
InitRead ==
    /\ merges = 0
    /\ panel = PanelInit
    /\ runs = <<>>
    /\ \E n \in 0..MaxStored : \E f \in [1..n -> ReadServices] :
          /\ \A i, j \in 1..n : i # j => f[i].name # f[j].name
          /\ services = Numbered(f, n)
    /\ \E n \in 0..MaxStored : \E f \in [1..n -> ReadEmployees] :
          employees = Numbered(f, n)
    /\ \E n \in 0..MaxStored : \E f \in [1..n -> ReadEvents] :
          events = Numbered(f, n)
    /\ services_id_seq = Cardinality(services) + 1
    /\ employees_id_seq = Cardinality(employees) + 1
    /\ events_id_seq = Cardinality(events) + 1
    /\ issued = [services |-> {r.id : r \in services},
                 employees |-> {r.id : r \in employees},
                 events |-> {r.id : r \in events}]
    /\ call = [op |-> "init_db", args |-> <<>>, raised |-> FALSE, ret |-> None,
               pre |-> Tables, pre_issued |-> issued]

NextRead ==
    \/ get_all_services_call
    \/ get_all_employees
    \/ get_all_events

SpecRead == InitRead /\ [][NextRead]_vars

IsRead ==
    call.op \in {"get_all_services", "get_all_employees", "get_all_events"}

\* The result holds every row of the table once, in an order the sort keys
\* allow.
SortedByKeys ==
    IsRead =>
        LET kind == call.args[1]
            rows == call.pre[kind]
        IN  /\ Len(call.ret) = Cardinality(rows)
            /\ {call.ret[i] : i \in 1..Len(call.ret)} = rows
            /\ \E nulls_first \in BOOLEAN :
                  call.ret \in Sorted(rows, kind, nulls_first)

SameKey(rows, employee) ==
    {r \in rows : KeyOf(r) = KeyOfRecord(employee)}

\* C14: each pass of add_employees_bulk takes its record for an existing
\* employee exactly when a row has the record's first_name and last_name,
\* letter case included, and either the record's email or, like the record,
\* none; the row it takes is such a row, so a record without email never
\* takes a row with one and a record with an email never a row without.
C14_MatchesByKey ==
    IsBulk =>
        \A i \in 1..Len(call.log) :
            LET p == call.log[i]
            IN  /\ p.existing # {} <=> SameKey(p.before, p.employee) # {}
                /\ p.existing \subseteq SameKey(p.before, p.employee)
                /\ \A e \in p.existing :
                      (e.email = None) <=> (get(p.employee, "email", None) = None)

\* A dict without email takes the Dana Levi row without email and not the
\* Dana Levi row with one; a dict naming dana Levi takes neither.
C14_Witness ==
    /\ IsBulk
    /\ Len(call.log) = 2
    /\ get(call.log[1].employee, "email", None) = None
    /\ \E e \in call.log[1].existing : e.email = None
    /\ \E r \in call.log[1].before :
          r.email # None /\ r.first_name = <<"Dana">> /\ r.last_name = <<"Levi">>
    /\ call.log[2].employee.first_name = <<"dana">>
    /\ call.log[2].existing = {}

\* A dict the employees table can store: first_name and last_name not None.
Storable(employee) ==
    /\ get(employee, "first_name", <<>>) # None
    /\ get(employee, "last_name", <<>>) # None

\* C15: a pass whose (storable) record matches no row inserts exactly one
\* new row: it carries the record's first_name, last_name, email, phone,
\* residence, role and work_location (None for a key the dict lacks), and its
\* registered_events is the event label when the label is non-empty and
\* holds nothing (None or the empty label itself) when it is empty.
C15_InsertsTheRecord ==
    IsBulk =>
        \A i \in 1..Len(call.log) :
            LET p == call.log[i]
                event_name == call.args[2]
            IN  (p.existing = {} /\ Storable(p.employee)) =>
                    \E r \in p.after :
                        /\ r \notin p.before
                        /\ p.after = p.before \cup {r}
                        /\ \A o \in p.before : o.id # r.id
                        /\ r.first_name = get(p.employee, "first_name", <<>>)
                        /\ r.last_name = get(p.employee, "last_name", <<>>)
                        /\ \A f \in {"email", "phone", "residence", "role",
                                     "work_location"} :
                              r[f] = get(p.employee, f, None)
                        /\ Truthy(event_name) => r.registered_events = event_name
                        /\ ~Truthy(event_name) => ~Truthy(r.registered_events)

\* Dana Levi with phone 050 is inserted beside a stored Dana Levi without
\* email, with the label A as her registered_events.
C15_Witness ==
    /\ IsBulk
    /\ call.args[2] = <<"A">>
    /\ call.pre.employees # {}
    /\ \E i \in 1..Len(call.log) :
          /\ call.log[i].existing = {}
          /\ call.log[i].wrote
          /\ \E r \in employees \ call.pre.employees :
                /\ r.phone = <<"050">>
                /\ r.residence = None
                /\ r.registered_events = <<"A">>

\* A row without its registered_events.
WithoutEvents(r) == [f \in (DOMAIN r) \ {"registered_events"} |-> r[f]]

\* C19: add_employees_bulk deletes no employee row; a row that was there
\* keeps its id and every field but registered_events, whatever phone,
\* residence, role or work_location the matching dict carries; a row whose
\* key no dict of the batch has is left as it was; the services and the
\* events tables are left as they were.
C19_Frame ==
    IsBulk =>
        LET employees_data == call.args[1]
        IN  /\ \A r \in call.pre.employees :
                  /\ Cardinality({n \in employees : n.id = r.id}) = 1
                  /\ \A n \in employees :
                        n.id = r.id => WithoutEvents(n) = WithoutEvents(r)
                  /\ (\A i \in 1..Len(employees_data) :
                         KeyOfRecord(employees_data[i]) # KeyOf(r))
                        => r \in employees
            /\ services = call.pre.services
            /\ events = call.pre.events

\* The dict with phone 050 matched the stored Dana Levi with email, who got
\* the label and kept her phone; the stored Dana Levi without email was
\* matched by no dict and stayed as she was.
C19_Witness ==
    /\ IsBulk
    /\ Len(call.args[1]) = 1
    /\ call.args[1][1].phone = <<"050">>
    /\ \E e \in call.log[1].existing :
          /\ e.phone = None
          /\ \E n \in employees :
                /\ n.id = e.id
                /\ n.phone = None
                /\ n.registered_events # e.registered_events
    /\ \E r \in call.pre.employees : r.email = None /\ r \in employees
    /\ services # {}
    /\ events # {}

\* The passes made before a record that could not be stored are not undone.
NoRollback ==
    IsBulk =>
        /\ \A i \in 1..Len(call.log) :
              /\ call.log[i].employee = call.args[1][i]
              /\ call.log[i].before =
                    IF i = 1 THEN call.pre.employees ELSE call.log[i - 1].after
        /\ call.log # <<>> => employees = call.log[Len(call.log)].after

\* C16 as stated: add_employees_bulk works through the whole batch record by
\* record. Every record gets its pass, also after a record that could not
\* be stored; each pass starts from the rows the one before left, and the
\* table ends as the last pass left it (nothing is rolled back).
C16_BestEffort ==
    /\ NoRollback
    /\ IsBulk => Len(call.log) = Len(call.args[1])

\* ------------------------------------------------ claims: concurrent imports
\* Two add_employees_bulk calls running at once, each on its own connection
\* to the one database. Every statement is its own transaction (autocommit),
\* so the statements of the two loops interleave one by one. A run is at
\* the SELECT ("lookup") or at the UPDATE/INSERT ("write") of its i-th
\* record, holding the row fetchone() returned; overlapped records that the
\* other run wrote between this run's SELECT and its write.
RaceLabels == {<<"A">>, <<"B">>, <<"Conf2024">>}

RaceBatch ==
    <<Person(<<"Dana">>, <<"Levi">>, <<"d@x">>, <<"050">>, None),
      Person(<<"Dana">>, <<"Levi">>, Missing, Missing, Missing)>>

Run(event_name) ==
    [employees_data |-> RaceBatch, event_name |-> event_name, i |-> 1,
     pc |-> "lookup", existing |-> {}, overlapped |-> FALSE, raised |-> FALSE]

\* init_db() on a file that holds Dana Levi with email d@x and no Dana Levi
\* without email, and two imports started.
InitRace ==
    /\ services = {}
    /\ events = {}
    /\ services_id_seq = 1
    /\ events_id_seq = 1
    /\ employees_id_seq = 2
    /\ merges = 0
    /\ panel = PanelInit
    /\ \E registered_events \in StoredEvents :
          employees = {[id |-> 1, first_name |-> <<"Dana">>,
                        last_name |-> <<"Levi">>, email |-> <<"d@x">>,
                        phone |-> None, residence |-> None, role |-> None,
                        work_location |-> None,
                        registered_events |-> registered_events]}
    /\ \E l1, l2 \in RaceLabels : runs = <<Run(l1), Run(l2)>>
    /\ issued = [services |-> {}, employees |-> {1}, events |-> {}]
    /\ call = [op |-> "init_db", args |-> <<>>, raised |-> FALSE, ret |-> None,
               pre |-> Tables, pre_issued |-> issued]

\* existing = conn.execute("SELECT id, registered_events ...").fetchone()
\* in run k.
select_existing(k) ==
    /\ runs[k].pc = "lookup"
    /\ LET employee == runs[k].employees_data[runs[k].i]
           found == lookup(employees, get(employee, "first_name", <<>>),
                           get(employee, "last_name", <<>>),
                           get(employee, "email", None))
       IN  \E existing \in (IF found = {} THEN {{}} ELSE {{e} : e \in found}) :
              runs' = [runs EXCEPT ![k].pc = "write", ![k].existing = existing]
    /\ UNCHANGED <<panel, merges, services, employees, events, services_id_seq,
                   employees_id_seq, events_id_seq, issued, call>>

\* runs after run k made its write, the table changed or not; the other
\* run, when it stands between its SELECT and its write, has been overtaken.
after_write(k, changed, raised) ==
    [j \in DOMAIN runs |->
        IF j = k
        THEN [runs[k] EXCEPT
                 !.i = @ + 1,
                 !.existing = {},
                 !.raised = raised,
                 !.pc = IF raised \/ runs[k].i = Len(runs[k].employees_data)
                        THEN "done" ELSE "lookup"]
        ELSE [runs[j] EXCEPT
                 !.overlapped = @ \/ (changed /\ runs[j].pc = "write")]]

\* The if existing: ... else: ... of run k, on the row its SELECT returned.
write_employee(k) ==
    /\ runs[k].pc = "write"
    /\ LET employee == runs[k].employees_data[runs[k].i]
           event_name == runs[k].event_name
       IN  IF runs[k].existing # {}
           THEN \E existing \in runs[k].existing :
                   LET wrote == updates(existing.registered_events, event_name)
                       new_events == merged_events(existing.registered_events,
                                                   event_name)
                   IN  /\ employees' = IF wrote
                                       THEN updated(employees, existing.id,
                                                    new_events)
                                       ELSE employees
                       /\ runs' = after_write(k, wrote, FALSE)
                       /\ UNCHANGED <<employees_id_seq, issued>>
           ELSE LET row == inserted_row(employees_id_seq, employee, event_name)
                IN  /\ employees_id_seq <= MaxEmployeeId
                    /\ IF employees_constraint(row)
                       THEN /\ runs' = after_write(k, FALSE, TRUE)
                            /\ UNCHANGED <<employees, employees_id_seq, issued>>
                       ELSE /\ employees' = employees \cup {row}
                            /\ employees_id_seq' = employees_id_seq + 1
                            /\ issued' = [issued EXCEPT
                                             !.employees = @ \cup {row.id}]
                            /\ runs' = after_write(k, TRUE, FALSE)
    /\ UNCHANGED <<panel, merges, services, events, services_id_seq,
                   events_id_seq, call>>

NextRace ==
    \/ \E k \in 1..2 : select_existing(k)
    \/ \E k \in 1..2 : write_employee(k)

SpecRace == InitRace /\ [][NextRace]_vars

BothDone == runs # <<>> /\ \A k \in DOMAIN runs : runs[k].pc = "done"

\* The rows of the person of run k's j-th record that hold the run's label.
HoldingLabel(k, j) ==
    {r \in SameKey(employees, runs[k].employees_data[j]) :
        in_list(runs[k].event_name, Entries(r.registered_events))}

\* C17: two add_employees_bulk runs on the same persons lose an event label
\* or store a person twice only by racing: when both have completed and
\* neither was overtaken between a SELECT and its write, every person of the
\* batches holds the labels of both runs and no two rows share a key.
C17_LossOnlyByRace ==
    (BothDone /\ \A k \in DOMAIN runs : ~runs[k].overlapped) =>
        /\ \A k \in DOMAIN runs :
              \A j \in 1..Len(runs[k].employees_data) : HoldingLabel(k, j) # {}
        /\ NoTwoRowsShareKey(employees)

\* Both runs completed with different labels, neither of which Dana Levi
\* (d@x) had: her registered_events holds only one of them, and the Dana
\* Levi without email, not stored before, has been inserted by both runs.
C17_Witness ==
    /\ BothDone
    /\ runs[1].event_name # runs[2].event_name
    /\ \A k \in 1..2 :
          \A r \in call.pre.employees :
             ~in_list(runs[k].event_name, Entries(r.registered_events))
    /\ \E k \in 1..2 : HoldingLabel(k, 1) = {}
    /\ \E k \in 1..2 : HoldingLabel(k, 1) # {}
    /\ Cardinality(SameKey(employees, RaceBatch[2])) = 2

\* ------------------------------------------------------ import panel: model
\* FILE_TYPES, key to display name
FILE_TYPES ==
    [conference_participants |-> <<"Participants">>,
     conference_registrations |-> <<"Registrations">>,
     meetings_business |-> <<"Business meetings">>,
     meetings_employees |-> <<"Employee meetings">>]

get_file_type_key(display_name) ==
    IF \E key \in DOMAIN FILE_TYPES : FILE_TYPES[key] = display_name
    THEN <<CHOOSE key \in DOMAIN FILE_TYPES : FILE_TYPES[key] = display_name>>
    ELSE None

\* The english names of CONFERENCE_PARTICIPANTS_COLUMNS
CONFERENCE_PARTICIPANTS_COLUMNS ==
    {"first_name", "last_name", "email", "phone", "residence", "role",
     "work_location"}

\* A cell pandas read as missing (pd.notna is False).
NaN == <<"NaN">>

check_enable_file_input(p) ==
    IF p.file_type_select.value # <<>> /\ strip(p.event_name_input) # <<>>
    THEN [p EXCEPT !.file_input_container.visible = TRUE,
                   !.loaded_data.event_name = strip(p.event_name_input),
                   !.status_message.alert_type = "info"]
    ELSE [p EXCEPT !.file_input_container.visible = FALSE,
                   !.save_button.visible = FALSE,
                   !.preview_table.visible = FALSE]

on_file_type_change(p) ==
    IF p.file_type_select.value # <<>>
    THEN check_enable_file_input(
             [p EXCEPT !.save_button.visible = FALSE,
                       !.save_button.disabled = TRUE,
                       !.loaded_data.df = NoDf,
                       !.loaded_data.file_type_key =
                           get_file_type_key(p.file_type_select.value)])
    ELSE [p EXCEPT !.file_input_container.visible = FALSE,
                   !.save_button.visible = FALSE,
                   !.preview_table.visible = FALSE,
                   !.status_message.alert_type = "info"]

\* file_type_select.value = "" inside on_event_name_change: the watcher of
\* the select runs when the value was another one.
file_type_cleared(p) ==
    IF p.file_type_select.value # <<>>
    THEN on_file_type_change([p EXCEPT !.file_type_select.value = <<>>])
    ELSE p

on_event_name_change(p) ==
    IF strip(p.event_name_input) # <<>>
    THEN LET q == [p EXCEPT !.file_type_select.disabled = FALSE,
                            !.loaded_data.event_name = strip(p.event_name_input)]
         IN  IF q.file_type_select.value = <<>>
             THEN [q EXCEPT !.status_message.alert_type = "info"]
             ELSE check_enable_file_input(q)
    ELSE LET q == file_type_cleared([p EXCEPT !.file_type_select.disabled = TRUE])
         IN  [q EXCEPT !.file_input_container.visible = FALSE,
                       !.save_button.visible = FALSE,
                       !.preview_table.visible = FALSE,
                       !.status_message.alert_type = "info"]

\* filename.endswith(suffix), the file name split before its extension
endswith(filename, suffix) ==
    filename # <<>> /\ filename[Len(filename)] = suffix

\* Every file read as its content says, whatever its extension.
read_by_content(file) ==
    IF file.format \in {"csv", "excel"}
    THEN [outcome |-> "df", df |-> [isnone |-> FALSE, rows |-> file.sheet]]
    ELSE [outcome |-> "error", df |-> NoDf]

\* pd.read_csv for .csv, pd.read_excel for .xlsx and .xls, which raise on
\* bytes that are not in their format; no reader for another extension.
read(file) ==
    IF endswith(file.filename, ".csv")
    THEN IF file.format = "csv"
         THEN [outcome |-> "df", df |-> [isnone |-> FALSE, rows |-> file.sheet]]
         ELSE [outcome |-> "error", df |-> NoDf]
    ELSE IF endswith(file.filename, ".xlsx") \/ endswith(file.filename, ".xls")
    THEN IF file.format = "excel"
         THEN [outcome |-> "df", df |-> [isnone |-> FALSE, rows |-> file.sheet]]
         ELSE [outcome |-> "error", df |-> NoDf]
    ELSE [outcome |-> "unsupported", df |-> NoDf]

on_file_upload(p, file) ==
    LET r == read(file)
        q == [p EXCEPT !.file_input = file]
    IN  CASE r.outcome = "unsupported" ->
                [q EXCEPT !.status_message.alert_type = "danger"]
          [] r.outcome = "error" ->
                [q EXCEPT !.status_message.alert_type = "danger",
                          !.preview_table.visible = FALSE,
                          !.save_button.visible = FALSE]
          [] r.outcome = "df" ->
                [q EXCEPT !.loaded_data.df = r.df,
                          !.preview_table.visible = TRUE,
                          !.save_button.visible = TRUE,
                          !.save_button.disabled = FALSE,
                          !.status_message.alert_type = "success"]

\* person, the dict built from one row of the sheet: a key for each column
\* the sheet has, None for a missing cell, else str(value).strip().
person_of(row) ==
    [col_eng \in CONFERENCE_PARTICIPANTS_COLUMNS |->
        IF row[col_eng] = Missing THEN Missing
        ELSE IF row[col_eng] = NaN THEN None
        ELSE strip(row[col_eng])]

\* The filter asking for both names.
keeps_both_names(person) ==
    Truthy(get(person, "first_name", None)) /\ Truthy(get(person, "last_name", None))

\* if person.get('first_name') or person.get('last_name')
keeps(person) ==
    Truthy(get(person, "first_name", None)) \/ Truthy(get(person, "last_name", None))

process_conference_participants(df) ==
    SelectSeq([i \in 1..Len(df.rows) |-> person_of(df.rows[i])], keeps)

\* "Reset for next upload" of on_save_click
reset_for_next_upload(p) ==
    [p EXCEPT !.save_button.disabled = TRUE,
              !.save_button.visible = FALSE,
              !.preview_table.visible = FALSE,
              !.loaded_data.df = NoDf,
              !.file_input = NoFile,
              !.file_input_container.visible = TRUE]

\* The click on the save button: the panel with what the click read and
\* handed on, and the call of db.add_employees_bulk it makes.
on_save_click ==
    /\ panel.save_button.visible
    /\ ~panel.save_button.disabled
    /\ LET df == panel.loaded_data.df
           file_type_key == panel.loaded_data.file_type_key
           employees_data == process_conference_participants(df)
           event_name == panel.loaded_data.event_name
           clicked(p, data, passed) ==
               [p EXCEPT !.last = "on_save_click",
                         !.saved = [df |-> df, employees_data |-> data,
                                    passed |-> passed]]
           untouched ==
               UNCHANGED <<merges, services, employees, events, services_id_seq,
                           employees_id_seq, events_id_seq, issued, call>>
       IN  IF df.isnone
           THEN /\ panel' = clicked([panel EXCEPT
                                        !.status_message.alert_type = "danger"],
                                    <<>>, FALSE)
                /\ untouched
           ELSE IF file_type_key = <<"conference_participants">>
           THEN IF employees_data # <<>>
                THEN /\ bulk_merge(employees_data, event_name)
                     /\ panel' =
                           IF call'.raised
                           THEN clicked([panel EXCEPT
                                   !.status_message.alert_type = "danger"],
                                   employees_data, TRUE)
                           ELSE clicked(reset_for_next_upload([panel EXCEPT
                                   !.status_message.alert_type = "success"]),
                                   employees_data, TRUE)
                ELSE /\ panel' = clicked(reset_for_next_upload([panel EXCEPT
                                   !.status_message.alert_type = "warning"]),
                                   employees_data, FALSE)
                     /\ untouched
           ELSE /\ panel' = clicked(reset_for_next_upload([panel EXCEPT
                                   !.status_message.alert_type = "warning"]),
                                   <<>>, FALSE)
                /\ untouched
    /\ UNCHANGED runs

\* The callbacks as the browser runs them: a watcher runs when its widget's
\* value changes, a disabled or hidden widget takes no input.
DbUntouched ==
    UNCHANGED <<runs, merges, services, employees, events, services_id_seq,
                employees_id_seq, events_id_seq, issued, call>>

event_name_typed(value) ==
    /\ value # panel.event_name_input
    /\ panel' = [on_event_name_change([panel EXCEPT !.event_name_input = value])
                    EXCEPT !.last = "on_event_name_change"]
    /\ DbUntouched

file_type_selected(value) ==
    /\ ~panel.file_type_select.disabled
    /\ value # panel.file_type_select.value
    /\ panel' = [on_file_type_change([panel EXCEPT !.file_type_select.value = value])
                    EXCEPT !.last = "on_file_type_change"]
    /\ DbUntouched

\* on_file_upload returns at once on a value that is None or b''.
file_uploaded(file) ==
    /\ panel.file_input_container.visible
    /\ file # panel.file_input
    /\ file.format # "empty"
    /\ panel' = [on_file_upload(panel, file)
                    EXCEPT !.last = "on_file_upload",
                           !.uploaded = [file |-> file,
                                         before |-> panel.loaded_data.df]]
    /\ DbUntouched

SheetRow(first_name, last_name, email, phone) ==
    [first_name |-> first_name, last_name |-> last_name, email |-> email,
     phone |-> phone, residence |-> NaN, role |-> Missing,
     work_location |-> Missing]

\* Dana Levi with a blank before her first name, a row without names, and
\* Avi without a last name.
SheetA ==
    <<SheetRow(<<" ", "Dana">>, <<"Levi">>, <<"d@x">>, <<"050">>),
      SheetRow(NaN, NaN, <<"d@x">>, NaN),
      SheetRow(<<"Avi">>, NaN, NaN, NaN)>>

\* Dana Levi, a row whose first name is a blank, and Avi Cohen.
SheetB ==
    <<SheetRow(<<"Dana">>, <<"Levi">>, NaN, NaN),
      SheetRow(<<" ">>, NaN, <<"d@x">>, NaN),
      SheetRow(<<"Avi">>, <<"Cohen">>, NaN, <<"050">>)>>

\* The files of the uploads: a CSV and an Excel sheet, a CSV sheet named
\* .txt, a .csv that is no CSV, and a file without bytes.
Files ==
    {[filename |-> <<"a", ".csv">>, format |-> "csv", sheet |-> SheetA],
     [filename |-> <<"b", ".xlsx">>, format |-> "excel", sheet |-> SheetB],
     [filename |-> <<"c", ".txt">>, format |-> "csv", sheet |-> SheetB],
     [filename |-> <<"d", ".csv">>, format |-> "binary", sheet |-> <<>>],
     [filename |-> <<"f", ".csv">>, format |-> "empty", sheet |-> <<>>]}

EventNames == {<<>>, <<" ">>, <<"A">>, <<" ", "B">>}

\* The options the select is set to: none, the type the save handles and one
\* of the three it does not.
FileTypeOptions ==
    {<<>>, FILE_TYPES.conference_participants, FILE_TYPES.meetings_business}

NextImport ==
    \/ \E value \in EventNames : event_name_typed(value)
    \/ \E value \in FileTypeOptions : file_type_selected(value)
    \/ \E file \in Files : file_uploaded(file)
    \/ on_save_click

SpecImport == Init /\ [][NextImport]_vars

\* ----------------------------------------------------- claims: import panel
Extension(file) == file.filename[Len(file.filename)]

\* A file the panel has no reader for, or whose bytes are not in the format
\* its extension names.
Rejectable(file) ==
    \/ Extension(file) \notin {".csv", ".xlsx", ".xls"}
    \/ Extension(file) = ".csv" /\ file.format # "csv"
    \/ Extension(file) \in {".xlsx", ".xls"} /\ file.format # "excel"

HasText(cell) == cell # Missing /\ cell # NaN /\ strip(cell) # <<>>

\* The rows of the sheet with a first name or a last name, by position.
Named(rows) ==
    {i \in 1..Len(rows) :
        HasText(rows[i].first_name) \/ HasText(rows[i].last_name)}

\* The k-th of a set of positions.
Nth(positions, k) ==
    CHOOSE i \in positions : Cardinality({j \in positions : j <= i}) = k

\* C18: a save click on a participants sheet hands on the rows whose first
\* name or last name is present and non-empty (once trimmed), in the order
\* of the sheet, and no other row; these, and only these, are the dicts
\* add_employees_bulk is called with, and it is not called when no row is
\* left.
C18_KeepsNamedRowsInOrder ==
    (/\ panel.last = "on_save_click"
     /\ ~panel.saved.df.isnone
     /\ panel.loaded_data.file_type_key = <<"conference_participants">>) =>
        LET rows == panel.saved.df.rows
            employees_data == panel.saved.employees_data
        IN  /\ Len(employees_data) = Cardinality(Named(rows))
            /\ \A k \in 1..Len(employees_data) :
                  employees_data[k] = person_of(rows[Nth(Named(rows), k)])
            /\ panel.saved.passed <=> employees_data # <<>>
            /\ panel.saved.passed =>
                  /\ IsBulk
                  /\ call.args[1] = employees_data

\* The sheet of b.xlsx was saved: Dana Levi and Avi Cohen reached
\* add_employees_bulk in this order, the row between them, whose first name
\* is a blank, did not.
C18_Witness ==
    /\ panel.last = "on_save_click"
    /\ panel.saved.df.rows = SheetB
    /\ panel.saved.passed
    /\ IsBulk
    /\ ~call.raised
    /\ Len(call.args[1]) = 2
    /\ call.args[1][1].first_name = <<"Dana">>
    /\ call.args[1][2].first_name = <<"Avi">>
    /\ panel.status_message.alert_type = "success"

SaveAvailable == panel.save_button.visible /\ ~panel.save_button.disabled

\* While the save button can be clicked, a save would write the sheet of
\* the file uploaded last, under the trimmed, non-empty event name of the
\* input and the selected file type.
SaveHoldsLastUpload ==
    SaveAvailable =>
        /\ panel.uploaded.file # NoFile
        /\ panel.loaded_data.df =
              [isnone |-> FALSE, rows |-> panel.uploaded.file.sheet]
        /\ Truthy(panel.loaded_data.event_name)
        /\ panel.loaded_data.event_name = strip(panel.event_name_input)
        /\ panel.file_type_select.value # <<>>
        /\ panel.loaded_data.file_type_key =
              get_file_type_key(panel.file_type_select.value)

\* After a rejected upload the save button cannot be clicked until a later
\* upload has loaded.
NoSaveAfterRejection ==
    (panel.uploaded.file # NoFile /\ Rejectable(panel.uploaded.file))
        => ~SaveAvailable

\* C20 as stated: after any sequence of event-name changes, file-type
\* changes, uploads and save clicks, a visible and enabled save button means
\* that a save click would write the content of the most recently uploaded
\* file, with a non-empty trimmed event label and a selected file type; and
\* after a rejected upload the save is not available until a file has been
\* loaded.
C20_SaveMatchesLastUpload ==
    /\ SaveHoldsLastUpload
    /\ NoSaveAfterRejection

====
